---- MODULE Spec2Model ----
(***************************************************************************)
(* Conversation threads and the agentic ask of flavour-fiesta-api.         *)
(*                                                                         *)
(* The Neo4j store holds Thread nodes and Message nodes; every             *)
(* neo4j.executeQuery is one transaction, so each query of an ask is one   *)
(* atomic step and concurrent asks interleave between queries.             *)
(* postNeo4jQuestion is modelled per invocation (a process of Procs).      *)
(* llmWithTools lives in ./tool-helper, which is not among the sources:    *)
(* it is modelled from section 4.4 of the specification.                   *)
(* The rendering of a query's records by executeCustomQuery is a function  *)
(* of the store's reply alone; RenderSpec applies it to every reply of a   *)
(* bounded set.                                                            *)
(* createUser, updateUserPreferences and deleteMealFromPlan of recipe.ts   *)
(* are one Cypher statement each; a statement is modelled clause by        *)
(* clause on the number of rows it carries (PrefsSpec, PlanSpec).          *)
(***************************************************************************)
EXTENDS Integers, Sequences, FiniteSets, TLC

VARIABLES threads, msgs, now, ask, asked, graphReply, rendered, graph, lastCall

vars == <<threads, msgs, now, ask, asked, graphReply, rendered, graph, lastCall>>

-----------------------------------------------------------------------------
(* Bounds of the model *)

\* asks started in one behaviour
MaxAsks == 2
\* the store's clock runs over 0..MaxClock
MaxClock == 1

\* Records in one reply of the store under RenderSpec
MaxRows == 3

\* calls of recipe.ts functions in one behaviour of PrefsSpec
MaxCalls == 2

\* concurrent invocations of postNeo4jQuestion
Procs == {"p1", "p2"}

-----------------------------------------------------------------------------
(* Program constants *)

\* a limit one too high
loop_limit_PlusOne == 10 + 1

\* const loop_limit: u8 = 10
loop_limit == 10

\* thread_id: string | null = null
NULL == "null"

DEFAULT_PROMPT == "You are a Chat Assistant answering questions about recipes."

\* randomUuid(): the n-th identifier the store generates
randomUuid(n) == "t" \o ToString(n)

\* a thread id no createThread ever returned
UnknownId == randomUuid(0)

\* the question each caller asks
QuestionOf(p) == IF p = "p1" THEN "q1" ELSE "q2"

-----------------------------------------------------------------------------
(* Sequences *)

RECURSIVE Join(_, _)
\* Array.prototype.join
Join(parts, sep) ==
  IF Len(parts) = 0 THEN ""
  ELSE IF Len(parts) = 1 THEN parts[1]
  ELSE parts[1] \o sep \o Join(Tail(parts), sep)

-----------------------------------------------------------------------------
(* The store: Thread nodes, Message nodes, the clock behind datetime() *)

\* MATCH (t:Thread {id: $thread_id}): the thread nodes with this id
MatchThread(tid) == {t \in DOMAIN threads : t = tid}

ThreadExists(tid) == MatchThread(tid) # {}

\* a CREATE that marks the thread archived and dates last_updated a tick later
NewThread_ArchivedLater == [created |-> now, last_updated |-> now + 1, status |-> "archived"]

\* the Thread node CREATEd by createThread's query
NewThread == [created |-> now, last_updated |-> now, status |-> "active"]

\* the Message nodes of thread tid, as indices into msgs (creation order)
ThreadMsgs(tid) == {i \in 1..Len(msgs) : msgs[i].thread = tid}

RECURSIVE Orders(_)
\* ORDER BY m.datetime: every arrangement of the nodes S in which datetime never
\* decreases; rows with equal datetime come in an order the store does not fix
Orders(S) ==
  IF S = {} THEN {<<>>}
  ELSE UNION {{<<i>> \o r : r \in Orders(S \ {i})} :
                i \in {j \in S : \A k \in S : msgs[j].datetime <= msgs[k].datetime}}

\* AssistantMessage / UserMessage built from one returned row
ToMessage(i) ==
  IF msgs[i].role = "assistant" THEN [role |-> "assistant", content |-> msgs[i].content]
  ELSE [role |-> "user", content |-> msgs[i].content]

\* the results getThreadMessages can return for thread tid
LoadHistory(tid) ==
  {[k \in 1..Len(o) |-> ToMessage(o[k])] : o \in Orders(ThreadMsgs(tid))}

\* a saveQuery that creates the assistant node before the user node
SavedPair_AssistantFirst(tid, question, answer) ==
  << [thread |-> tid, role |-> "assistant", content |-> answer, datetime |-> now],
     [thread |-> tid, role |-> "user", content |-> question, datetime |-> now] >>

\* the two Message nodes CREATEd by saveMessages' saveQuery; datetime() is the
\* statement's clock, the same instant for both nodes
SavedPair(tid, question, answer) ==
  << [thread |-> tid, role |-> "user", content |-> question, datetime |-> now],
     [thread |-> tid, role |-> "assistant", content |-> answer, datetime |-> now] >>

\* a save in two statements of which the second is lost
SaveQuery_UserOnly(tid, question, answer) ==
  IF MatchThread(tid) # {}
  THEN Append(msgs, [thread |-> tid, role |-> "user", content |-> question,
                     datetime |-> now])
  ELSE msgs

\* a save that replaces the messages of the thread by the new pair
SaveQuery_ReplacesThread(tid, question, answer) ==
  IF MatchThread(tid) # {}
  THEN SelectSeq(msgs, LAMBDA m : m.thread # tid) \o SavedPair(tid, question, answer)
  ELSE msgs

\* saveQuery: MATCH the thread, CREATE both nodes and their HAS_MESSAGE
\* relationships for the match; nothing is created when nothing matches
SaveQuery(tid, question, answer) ==
  IF MatchThread(tid) # {} THEN msgs \o SavedPair(tid, question, answer) ELSE msgs

\* a touch that writes the thread's creation time less one in place of datetime()
TouchQuery_BeforeCreated(tid) ==
  [t \in DOMAIN threads |->
     IF t \in MatchThread(tid)
     THEN [threads[t] EXCEPT !.last_updated = threads[t].created - 1]
     ELSE threads[t]]

\* a touch whose MATCH has lost its {id: $thread_id}
TouchQuery_AllThreads(tid) ==
  [t \in DOMAIN threads |-> [threads[t] EXCEPT !.last_updated = now]]

\* updateThreadTimestamp's query: SET t.last_updated = datetime() on the match
TouchQuery(tid) ==
  [t \in DOMAIN threads |->
     IF t \in MatchThread(tid) THEN [threads[t] EXCEPT !.last_updated = now]
     ELSE threads[t]]

\* a validation that accepts every thread id
ValidateFinds_Always(tid, responded) == TRUE

\* saveMessages line 307: the validation query got a response with a record
ValidateFinds(tid, responded) == responded /\ MatchThread(tid) # {}

\* saveMessages line 338: the save query got a response with a record
SaveReturns(tid, responded) == responded /\ MatchThread(tid) # {}

-----------------------------------------------------------------------------
(* The graph query tool *)

\* the queries a model asks for, and the recipe graph's answer to each:
\* a sequence of Records, or no response (null) when the store fails the query
QRows == "MATCH (r:Recipe) RETURN r.name AS name, r.cost AS cost LIMIT 2"
QEmpty == "MATCH (r:Recipe {name: 'none'}) RETURN r.name AS name"
QBad == "MATCH (r:Recipe RETURN r"

GraphResponse(query) ==
  IF query = QRows
  THEN [null |-> FALSE,
        Records |-> << [Keys |-> <<"name", "cost">>, Values |-> <<"Pizza", "9.5">>],
                       [Keys |-> <<"name", "cost">>, Values |-> <<"Taco", NULL>>] >>]
  ELSE IF query = QEmpty THEN [null |-> FALSE, Records |-> <<>>]
  ELSE [null |-> TRUE, Records |-> <<>>]

\* the error message the store gives for a query it fails; executeQuery hands
\* executeCustomQuery no response and no message
QueryError(query) == IF query = QBad THEN "Invalid input 'RETURN'" ELSE ""

RECURSIVE Columns(_, _)
\* recordToString's loop: `key: value` for the columns whose value is not null
Columns(record, i) ==
  IF i > Len(record.Keys) THEN <<>>
  ELSE IF record.Values[i] # NULL
       THEN <<record.Keys[i] \o ": " \o record.Values[i]>> \o Columns(record, i + 1)
       ELSE Columns(record, i + 1)

recordToString(record) == Join(Columns(record, 1), ", ")

RECURSIVE RenderRows_KeepsEmptyLines(_, _)
\* a loop that emits a line for every Record, also for an empty current
RenderRows_KeepsEmptyLines(records, i) ==
  IF i > Len(records) THEN ""
  ELSE recordToString(records[i]) \o "\n" \o RenderRows_KeepsEmptyLines(records, i + 1)

RECURSIVE RenderRows(_, _)
\* executeCustomQuery's loop: each non-empty line followed by a newline
RenderRows(records, i) ==
  IF i > Len(records) THEN ""
  ELSE LET current == recordToString(records[i])
       IN (IF current # "" THEN current \o "\n" ELSE "") \o RenderRows(records, i + 1)

\* a rendering that returns the rows' text as it is, also when there is none
RenderResponse_NoSentinel(response) ==
  IF response.null THEN "Error executing query."
  ELSE RenderRows(response.Records, 1)

\* lines 383-395: what executeCustomQuery returns for the store's reply
RenderResponse(response) ==
  IF response.null THEN "Error executing query."
  ELSE LET result == RenderRows(response.Records, 1)
       IN IF result # "" THEN result ELSE "Query returned no results."

executeCustomQuery(args) == RenderResponse(GraphResponse(args.query))

\* a dispatch that sends every tool call to the query tool, whatever its name
executeToolCall_AnyName(toolCall) == executeCustomQuery(toolCall.arguments)

executeToolCall(toolCall) ==
  IF toolCall.name = "execute_query" THEN executeCustomQuery(toolCall.arguments)
  ELSE ""

\* the number of queries a list of tool calls sends to the graph store
RECURSIVE QueriesIn(_)
QueriesIn(calls) ==
  IF calls = <<>> THEN 0
  ELSE (IF calls[1].name = "execute_query" THEN 1 ELSE 0) + QueriesIn(Tail(calls))

-----------------------------------------------------------------------------
(* The model behind llmWithTools *)

\* ToolCall lists a model reply can carry
CallRows == << [name |-> "execute_query", arguments |-> [query |-> QRows]] >>
CallEmpty == << [name |-> "execute_query", arguments |-> [query |-> QEmpty]] >>
CallBadAndUnknown ==
  << [name |-> "execute_query", arguments |-> [query |-> QBad]],
     [name |-> "lookup_recipe", arguments |-> [query |-> QRows]] >>

\* A model is scripted by what it answers to its i-th call in one ask: tool
\* requests for the first `tools` calls (each carrying the text `partial`), then
\* the final text `text`, or a failed call.
Scripts ==
  { [tools |-> 0, calls |-> <<>>, partial |-> "", last |-> "final", text |-> "a1"],
    [tools |-> 1, calls |-> CallBadAndUnknown, partial |-> "", last |-> "final", text |-> "a1"],
    [tools |-> 1, calls |-> CallEmpty, partial |-> "", last |-> "fail", text |-> ""],
    [tools |-> 12, calls |-> CallRows, partial |-> "so far", last |-> "final", text |-> "a1"] }

NoScript == [tools |-> 0, calls |-> <<>>, partial |-> "", last |-> "final", text |-> ""]

\* the model's reply to the i-th call of an ask
ModelReply(script, i) ==
  IF i <= script.tools
  THEN [kind |-> "tools", calls |-> script.calls, text |-> script.partial]
  ELSE IF script.last = "fail" THEN [kind |-> "fail", calls |-> <<>>, text |-> ""]
  ELSE [kind |-> "final", calls |-> <<>>, text |-> script.text]

-----------------------------------------------------------------------------
(* One invocation of postNeo4jQuestion *)

\* new ThreadResponse(): thread_id "", response "", no logs
ThreadResponse == [thread_id |-> "", response |-> "", logs |-> <<>>]

\* an invocation before it starts
IdleAsk ==
  [ pc |-> "idle", question |-> "", thread_id |-> NULL, script |-> NoScript,
    result |-> ThreadResponse,
    previousMessages |-> <<>>,
    loops |-> 0, toolTurns |-> <<>>, text |-> "", ended |-> "",
    response |-> [response |-> "", logs |-> <<>>],
    saveResult |-> [success |-> FALSE, message |-> ""],
    modelCalls |-> 0, toolExecs |-> 0, appended |-> <<>> ]

\* the thread ids a caller can pass: those some finished ask has returned; the id
\* of a thread an ask in flight has just created is known to that ask alone
KnownIds ==
  DOMAIN threads \ {ask[p].result.thread_id : p \in {r \in Procs : ask[r].thread_id = NULL}}

\* what the store may answer to a query whose response the code inspects:
\* TRUE a response, FALSE none
StoreOutcomes == BOOLEAN

\* result.logs.push(`Error: ${message}`)
PushError(result, message) == [result EXCEPT !.logs = Append(@, "Error: " \o message)]

\* a result that takes the logs and leaves the response behind
TakeResponse_NoResponse(result, response) == [result EXCEPT !.logs = response.logs]

\* a result that takes the response and leaves the logs behind
TakeResponse_NoLogs(result, response) == [result EXCEPT !.response = response.response]

\* lines 228-229: the loop's response and logs become the result's
TakeResponse(result, response) ==
  [result EXCEPT !.response = response.response, !.logs = response.logs]

\* a save of the run's last in-memory turn in place of its response
SaveArgs_LastTurn(a) ==
  [thread_id |-> a.result.thread_id, question |-> a.question,
   answer |-> IF a.toolTurns # <<>> THEN a.toolTurns[Len(a.toolTurns)].content
              ELSE a.response.response]

\* lines 218-222: what postNeo4jQuestion hands to saveMessages
SaveArgs(a) ==
  [thread_id |-> a.result.thread_id, question |-> a.question,
   answer |-> a.response.response]

\* an entry that looks the thread up first and rejects an unknown thread id
AskStart_ChecksThread(p) ==
  /\ ask[p].pc = "idle"
  /\ asked < MaxAsks
  /\ \E t \in {NULL, UnknownId} \cup KnownIds, sc \in Scripts :
       ask' = [ask EXCEPT ![p] =
                 [IdleAsk EXCEPT !.question = QuestionOf(p), !.thread_id = t, !.script = sc,
                                 !.pc = IF t = NULL THEN "create"
                                        ELSE IF ThreadExists(t) THEN "load" ELSE "done",
                                 !.result =
                                   IF t = NULL THEN ThreadResponse
                                   ELSE IF ThreadExists(t)
                                        THEN [ThreadResponse EXCEPT !.thread_id = t]
                                        ELSE PushError([ThreadResponse EXCEPT !.thread_id = t],
                                                       "Thread with id " \o t \o " not found")]]
  /\ asked' = asked + 1
  /\ UNCHANGED <<threads, msgs, now, graphReply, rendered, graph, lastCall>>

\* the invocation is entered with its arguments
AskStart(p) ==
  /\ ask[p].pc = "idle"
  /\ asked < MaxAsks
  /\ \E t \in {NULL, UnknownId} \cup KnownIds, sc \in Scripts :
       ask' = [ask EXCEPT ![p] =
                 [IdleAsk EXCEPT !.question = QuestionOf(p), !.thread_id = t, !.script = sc,
                                 !.pc = IF t = NULL THEN "create" ELSE "load",
                                 !.result = [ThreadResponse EXCEPT
                                               !.thread_id = IF t = NULL THEN "" ELSE t]]]
  /\ asked' = asked + 1
  /\ UNCHANGED <<threads, msgs, now, graphReply, rendered, graph, lastCall>>

\* a caller that goes on with the empty thread id when createThread has failed
CreateThread_IgnoresFailure(p) ==
  /\ ask[p].pc = "create"
  /\ \E ok \in StoreOutcomes :
       IF ok
       THEN LET id == randomUuid(Cardinality(DOMAIN threads) + 1)
            IN /\ threads' = threads @@ (id :> NewThread)
               /\ ask' = [ask EXCEPT ![p].result.thread_id = id, ![p].pc = "load"]
       ELSE /\ threads' = threads
            /\ ask' = [ask EXCEPT ![p].pc = "load"]
  /\ UNCHANGED <<msgs, now, asked, graphReply, rendered, graph, lastCall>>

\* createThread and lines 194-199
CreateThread(p) ==
  /\ ask[p].pc = "create"
  /\ \E ok \in StoreOutcomes :
       IF ok
       THEN LET id == randomUuid(Cardinality(DOMAIN threads) + 1)
            IN /\ threads' = threads @@ (id :> NewThread)
               /\ ask' = [ask EXCEPT ![p].result.thread_id = id, ![p].pc = "load"]
       ELSE /\ threads' = threads
            /\ ask' = [ask EXCEPT ![p].result = PushError(@, "Failed to create thread"),
                                  ![p].pc = "done"]
  /\ UNCHANGED <<msgs, now, asked, graphReply, rendered, graph, lastCall>>

\* getThreadMessages, line 205
GetThreadMessages(p) ==
  /\ ask[p].pc = "load"
  /\ \E h \in LoadHistory(ask[p].result.thread_id) :
       ask' = [ask EXCEPT ![p].previousMessages = h, ![p].pc = "llm"]
  /\ UNCHANGED <<threads, msgs, now, asked, graphReply, rendered, graph, lastCall>>

-----------------------------------------------------------------------------
(* llmWithTools: the bounded model/tool loop *)

\* the message sequence a model call is given: system prompt, prior history,
\* the new question, then the tool results of this run
Context(a) ==
  << [role |-> "system", content |-> DEFAULT_PROMPT] >>
    \o a.previousMessages
    \o << [role |-> "user", content |-> a.question] >>
    \o a.toolTurns

\* the tool-result entries for one reply's tool calls, through the callback
ToolResults(calls) ==
  [k \in 1..Len(calls) |-> [role |-> "tool", content |-> executeToolCall(calls[k])]]

\* the RunLog lines for one reply's tool calls
CallLogs(calls) == [k \in 1..Len(calls) |-> "Calling tool: " \o calls[k].name]

\* the loop may call the model again
UnderLimit(loops, limit) == loops < limit

\* one iteration on the run's state a: a model call, then its tool calls or
\* the end of the run; at the ceiling, best-effort text and a log line
LlmStep(a, limit) ==
  IF ~UnderLimit(a.loops, limit)
  THEN [a EXCEPT !.response.response = a.text,
                 !.response.logs = Append(@, "Loop limit reached"),
                 !.ended = "ceiling"]
  ELSE LET reply == ModelReply(a.script, a.modelCalls + 1)
       IN CASE reply.kind = "final" ->
                 [a EXCEPT !.modelCalls = @ + 1,
                           !.response.response = reply.text,
                           !.ended = "final"]
            [] reply.kind = "tools" ->
                 [a EXCEPT !.modelCalls = @ + 1,
                           !.toolTurns = @ \o ToolResults(reply.calls),
                           !.toolExecs = @ + QueriesIn(reply.calls),
                           !.response.logs = @ \o CallLogs(reply.calls),
                           !.text = reply.text,
                           !.loops = @ + 1]
            [] OTHER ->
                 [a EXCEPT !.modelCalls = @ + 1,
                           !.response.logs = Append(@, "Error: model call failed"),
                           !.ended = "failed"]

RECURSIVE llmWithTools(_, _)
\* the run: iterations until final text, a failed call or the ceiling
llmWithTools(a, limit) ==
  IF a.ended # "" THEN a ELSE llmWithTools(LlmStep(a, limit), limit)

\* line 207: the call of llmWithTools. The run reads the recipe graph alone and
\* keeps its message sequence to itself, so it is one step of the invocation;
\* previousMessages is not read again once the run has it.
RunLoop(p) ==
  /\ ask[p].pc = "llm"
  /\ ask' = [ask EXCEPT ![p] = [llmWithTools(ask[p], loop_limit) EXCEPT
                                  !.pc = "validate", !.previousMessages = <<>>]]
  /\ UNCHANGED <<threads, msgs, now, asked, graphReply, rendered, graph, lastCall>>

-----------------------------------------------------------------------------
(* saveMessages, updateThreadTimestamp, return *)

\* saveMessages' validateQuery and lines 307-309
SaveValidate(p) ==
  /\ ask[p].pc = "validate"
  /\ LET tid == SaveArgs(ask[p]).thread_id
     IN \E ok \in StoreOutcomes :
          IF ValidateFinds(tid, ok)
          THEN ask' = [ask EXCEPT ![p].pc = "save"]
          ELSE LET sr == [success |-> FALSE,
                          message |-> "Thread with id " \o tid \o " not found"]
               IN ask' = [ask EXCEPT ![p].saveResult = sr,
                                     ![p].result = PushError(@, sr.message),
                                     ![p].pc = "done"]
  /\ UNCHANGED <<threads, msgs, now, asked, graphReply, rendered, graph, lastCall>>

\* a caller that goes on to updateThreadTimestamp when saveMessages has failed
SaveWrite_TouchesAfterFailure(p) ==
  /\ ask[p].pc = "save"
  /\ LET a == ask[p]
         args == SaveArgs(a)
         tid == args.thread_id
     IN \E ok \in StoreOutcomes :
          IF SaveReturns(tid, ok)
          THEN /\ msgs' = SaveQuery(tid, args.question, args.answer)
               /\ ask' = [ask EXCEPT
                            ![p].saveResult = [success |-> TRUE,
                                               message |-> "Messages saved successfully"],
                            ![p].result = TakeResponse(@, a.response),
                            ![p].appended = @ \o SubSeq(msgs', Len(msgs) + 1, Len(msgs')),
                            ![p].pc = "touch"]
          ELSE LET sr == [success |-> FALSE, message |-> "Failed to save messages"]
               IN /\ msgs' = (IF ok THEN SaveQuery(tid, args.question, args.answer) ELSE msgs)
                  /\ ask' = [ask EXCEPT ![p].saveResult = sr,
                                        ![p].appended = @ \o SubSeq(msgs', Len(msgs) + 1, Len(msgs')),
                                        ![p].result = PushError(@, sr.message),
                                        ![p].pc = "touch"]
  /\ UNCHANGED <<threads, now, asked, graphReply, rendered, graph, lastCall>>

\* saveMessages' saveQuery and lines 338-342, then lines 223-229
SaveWrite(p) ==
  /\ ask[p].pc = "save"
  /\ LET a == ask[p]
         args == SaveArgs(a)
         tid == args.thread_id
     IN \E ok \in StoreOutcomes :
          IF SaveReturns(tid, ok)
          THEN /\ msgs' = SaveQuery(tid, args.question, args.answer)
               /\ ask' = [ask EXCEPT
                            ![p].saveResult = [success |-> TRUE,
                                               message |-> "Messages saved successfully"],
                            ![p].result = TakeResponse(@, a.response),
                            ![p].appended = @ \o SubSeq(msgs', Len(msgs) + 1, Len(msgs')),
                            ![p].pc = "touch"]
          ELSE LET sr == [success |-> FALSE, message |-> "Failed to save messages"]
               IN /\ msgs' = (IF ok THEN SaveQuery(tid, args.question, args.answer) ELSE msgs)
                  /\ ask' = [ask EXCEPT ![p].saveResult = sr,
                                        ![p].appended = @ \o SubSeq(msgs', Len(msgs) + 1, Len(msgs')),
                                        ![p].result = PushError(@, sr.message),
                                        ![p].pc = "done"]
  /\ UNCHANGED <<threads, now, asked, graphReply, rendered, graph, lastCall>>

\* updateThreadTimestamp, line 232
UpdateThreadTimestamp(p) ==
  /\ ask[p].pc = "touch"
  /\ threads' = TouchQuery(ask[p].result.thread_id)
  /\ ask' = [ask EXCEPT ![p].pc = "done"]
  /\ UNCHANGED <<msgs, now, asked, graphReply, rendered, graph, lastCall>>

\* the result has been returned to the caller; the invocation is over
Return(p) ==
  /\ ask[p].pc = "done"
  /\ ask' = [ask EXCEPT ![p] = IdleAsk]
  /\ UNCHANGED <<threads, msgs, now, asked, graphReply, rendered, graph, lastCall>>

\* time passes at the store; the clock is read by datetime() alone, in the
\* queries of createThread, saveMessages and updateThreadTimestamp, so it is
\* advanced when one of them is about to run
Tick ==
  /\ now < MaxClock
  /\ \E p \in Procs : ask[p].pc \in {"create", "save", "touch"}
  /\ now' = now + 1
  /\ UNCHANGED <<threads, msgs, ask, asked, graphReply, rendered, graph, lastCall>>

-----------------------------------------------------------------------------

\* the names of the Allergen and Cuisine nodes of the model
AllergenNames == {"nuts", "milk"}
CuisineNames == {"Italian", "American", "Mexican", "Thai"}

\* an argument that is null, and one that is given
NoList == [null |-> TRUE, v |-> <<>>]
NoString == [null |-> TRUE, v |-> ""]
Some(v) == [null |-> FALSE, v |-> v]

\* the recipe graph with no User node, no MealPlan and no ShoppingList: the
\* user's UserPreferences properties, the number of EXCLUDES and PREFERS
\* relationships from it to each Allergen and Cuisine, the recipes of the
\* plan's PlannedMeals, its ShoppingList and the ingredients of its ShoppingItems
NoGraph ==
  [ user |-> FALSE,
    allergens |-> <<>>, favoriteCuisines |-> <<>>, skillLevel |-> "",
    dietaryRestrictions |-> <<>>,
    EXCLUDES |-> [n \in AllergenNames |-> 0],
    PREFERS |-> [n \in CuisineNames |-> 0],
    meals |-> {}, list |-> FALSE, items |-> {} ]

\* no function of recipe.ts has been called
NoCall ==
  [ op |-> "", n |-> 0, allergens |-> NoList, favoriteCuisines |-> NoList,
    skillLevel |-> NoString, dietaryRestrictions |-> NoList, meal |-> "",
    returned |-> "" ]

\* the store's reply to no query: no response
NoReply == [null |-> TRUE, Records |-> <<>>]

Init ==
  /\ threads = <<>>
  /\ msgs = <<>>
  /\ now = 0
  /\ ask = [p \in Procs |-> IdleAsk]
  /\ asked = 0
  /\ graphReply = NoReply
  /\ rendered = <<>>
  /\ graph = NoGraph
  /\ lastCall = NoCall

Next ==
  \/ \E p \in Procs : AskStart(p)
  \/ \E p \in Procs : CreateThread(p)
  \/ \E p \in Procs : GetThreadMessages(p)
  \/ \E p \in Procs : RunLoop(p)
  \/ \E p \in Procs : SaveValidate(p)
  \/ \E p \in Procs : SaveWrite(p)
  \/ \E p \in Procs : UpdateThreadTimestamp(p)
  \/ \E p \in Procs : Return(p)
  \/ Tick

Spec == Init /\ [][Next]_vars

-----------------------------------------------------------------------------
(* Asks that overlap on one thread *)

\* the thread a first ask has created and returned to its caller
SharedId == randomUuid(1)

\* the store after one successful ask with a null thread id
OverlapInit ==
  /\ threads = (SharedId :> [created |-> 0, last_updated |-> 0, status |-> "active"])
  /\ msgs = << [thread |-> SharedId, role |-> "user", content |-> "q1", datetime |-> 0],
               [thread |-> SharedId, role |-> "assistant", content |-> "a1", datetime |-> 0] >>
  /\ now = 0
  /\ ask = [p \in Procs |-> IdleAsk]
  /\ asked = 0
  /\ graphReply = NoReply
  /\ rendered = <<>>
  /\ graph = NoGraph
  /\ lastCall = NoCall

\* the invocation is entered with the id of the shared thread
OverlapAskStart(p) ==
  /\ ask[p].pc = "idle"
  /\ asked < MaxAsks
  /\ \E sc \in Scripts :
       ask' = [ask EXCEPT ![p] =
                 [IdleAsk EXCEPT !.question = QuestionOf(p), !.thread_id = SharedId,
                                 !.script = sc, !.pc = "load",
                                 !.result = [ThreadResponse EXCEPT !.thread_id = SharedId]]]
  /\ asked' = asked + 1
  /\ UNCHANGED <<threads, msgs, now, graphReply, rendered, graph, lastCall>>

OverlapNext ==
  \/ \E p \in Procs : OverlapAskStart(p)
  \/ \E p \in Procs : GetThreadMessages(p)
  \/ \E p \in Procs : RunLoop(p)
  \/ \E p \in Procs : SaveValidate(p)
  \/ \E p \in Procs : SaveWrite(p)
  \/ \E p \in Procs : UpdateThreadTimestamp(p)
  \/ \E p \in Procs : Return(p)
  \/ Tick

OverlapSpec == OverlapInit /\ [][OverlapNext]_vars

-----------------------------------------------------------------------------
(* executeCustomQuery's rendering, on every reply of a bounded set *)

\* the Records a reply can hold: two columns, each value a scalar or null
RowSet ==
  {[Keys |-> <<"name", "cost">>, Values |-> <<n, c>>] :
     n \in {"Pizza", NULL}, c \in {"9.5", NULL}}

\* the replies of the store: no response, or up to MaxRows Records
Replies ==
  {NoReply} \cup {[null |-> FALSE, Records |-> r] :
                    r \in UNION {[1..n -> RowSet] : n \in 0..MaxRows}}

RenderInit ==
  /\ threads = <<>>
  /\ msgs = <<>>
  /\ now = 0
  /\ ask = [p \in Procs |-> IdleAsk]
  /\ asked = 0
  /\ graphReply \in Replies
  /\ rendered = <<>>
  /\ graph = NoGraph
  /\ lastCall = NoCall

\* executeCustomQuery gets the store's reply and returns its text
RenderReply ==
  /\ rendered = <<>>
  /\ rendered' = <<RenderResponse(graphReply)>>
  /\ UNCHANGED <<threads, msgs, now, ask, asked, graphReply, graph, lastCall>>

RenderNext == RenderReply

RenderSpec == RenderInit /\ [][RenderNext]_vars

-----------------------------------------------------------------------------
(* recipe.ts: createUser and updateUserPreferences *)

\* how often name n occurs in the list
Occ(n, list) == Cardinality({i \in 1..Len(list) : list[i] = n})

RECURSIVE Total(_, _)
\* the number of relationships rel holds to the names of S
Total(rel, S) ==
  IF S = {} THEN 0
  ELSE LET n == CHOOSE x \in S : TRUE IN rel[n] + Total(rel, S \ {n})

\* UNWIND $list AS x  MERGE (node {name: x})  CREATE (p)-[:REL]->(node), on
\* `rows` rows that all carry p: one relationship per row and list element
Connect(rows, rel, list) == [n \in DOMAIN rel |-> rel[n] + rows * Occ(n, list)]

\* createUser's query: the CREATEs leave one row; UNWIND of the allergens makes
\* one row per allergen of it, and the UNWIND of the cuisines works on those rows
createUser(g, allergens, favoriteCuisines, skillLevel) ==
  LET cuisines == IF Len(favoriteCuisines) > 0 THEN favoriteCuisines
                  ELSE <<"Italian", "American", "Mexican">>
      created == 1
      unwound == created * Len(allergens)
  IN [g EXCEPT !.user = TRUE,
               !.allergens = allergens,
               !.favoriteCuisines = cuisines,
               !.skillLevel = skillLevel,
               !.dietaryRestrictions = <<>>,
               !.EXCLUDES = Connect(created, @, allergens),
               !.PREFERS = Connect(unwound, @, cuisines)]

\* one relationship section of updateUserPreferences' query, entered with
\* `rows` rows: OPTIONAL MATCH gives a row per existing relationship (one row
\* when there is none), DELETE r removes them, WITH p keeps every row, and the
\* UNWIND creates a relationship per row and list element
Section(rows, rel, list) ==
  LET existing == Total(rel, DOMAIN rel)
      matched == rows * (IF existing > 0 THEN existing ELSE 1)
      deleted == IF rows > 0 THEN [n \in DOMAIN rel |-> 0] ELSE rel
  IN [rows |-> matched * Len(list), rel |-> Connect(matched, deleted, list)]

\* a query that SETs all four properties whether or not the argument is null
updateUserPreferences_SetsAll(g, allergens, favoriteCuisines, skillLevel, dietaryRestrictions) ==
  LET matched == IF g.user THEN 1 ELSE 0
      set == IF matched = 0 THEN g
             ELSE [g EXCEPT !.allergens = allergens.v,
                            !.favoriteCuisines = favoriteCuisines.v,
                            !.skillLevel = skillLevel.v,
                            !.dietaryRestrictions = dietaryRestrictions.v]
      excl == IF allergens.null THEN [rows |-> matched, rel |-> set.EXCLUDES]
              ELSE Section(matched, set.EXCLUDES, allergens.v)
      pref == IF favoriteCuisines.null THEN [rows |-> excl.rows, rel |-> set.PREFERS]
              ELSE Section(excl.rows, set.PREFERS, favoriteCuisines.v)
  IN [set EXCEPT !.EXCLUDES = excl.rel, !.PREFERS = pref.rel]

\* updateUserPreferences' query: MATCH the user, MERGE the preferences, SET the
\* given properties, then the allergen section and the cuisine section, each
\* present when its argument is not null
updateUserPreferences(g, allergens, favoriteCuisines, skillLevel, dietaryRestrictions) ==
  LET matched == IF g.user THEN 1 ELSE 0
      set == IF matched = 0 THEN g
             ELSE [g EXCEPT
                     !.allergens = IF allergens.null THEN @ ELSE allergens.v,
                     !.favoriteCuisines =
                        IF favoriteCuisines.null THEN @ ELSE favoriteCuisines.v,
                     !.skillLevel = IF skillLevel.null THEN @ ELSE skillLevel.v,
                     !.dietaryRestrictions =
                        IF dietaryRestrictions.null THEN @ ELSE dietaryRestrictions.v]
      excl == IF allergens.null THEN [rows |-> matched, rel |-> set.EXCLUDES]
              ELSE Section(matched, set.EXCLUDES, allergens.v)
      pref == IF favoriteCuisines.null THEN [rows |-> excl.rows, rel |-> set.PREFERS]
              ELSE Section(excl.rows, set.PREFERS, favoriteCuisines.v)
  IN [set EXCEPT !.EXCLUDES = excl.rel, !.PREFERS = pref.rel]

\* the arguments the functions are called with
AllergenLists == {<<>>, <<"nuts">>, <<"nuts", "milk">>}
CuisineLists == {<<>>, <<"Thai">>, <<"Thai", "Italian">>}
SkillLevels == {"beginner", "expert"}

\* createUser is called for a user id that is new
CreateUser ==
  /\ lastCall.n < MaxCalls
  /\ ~graph.user
  /\ \E al \in AllergenLists, fc \in CuisineLists, sk \in SkillLevels :
       /\ graph' = createUser(graph, al, fc, sk)
       /\ lastCall' = [NoCall EXCEPT !.op = "createUser", !.n = lastCall.n + 1,
                                    !.allergens = Some(al), !.favoriteCuisines = Some(fc),
                                    !.skillLevel = Some(sk), !.returned = "true"]
  /\ UNCHANGED <<threads, msgs, now, ask, asked, graphReply, rendered>>

\* updateUserPreferences is called for the user id
UpdateUserPreferences ==
  /\ lastCall.n < MaxCalls
  /\ \E al \in {NoList} \cup {Some(l) : l \in AllergenLists},
        fc \in {NoList} \cup {Some(l) : l \in CuisineLists},
        sk \in {NoString, Some("expert")},
        dr \in {NoList, Some(<<"vegan">>)} :
       /\ graph' = updateUserPreferences(graph, al, fc, sk, dr)
       /\ lastCall' = [NoCall EXCEPT !.op = "updateUserPreferences", !.n = lastCall.n + 1,
                                    !.allergens = al, !.favoriteCuisines = fc,
                                    !.skillLevel = sk, !.dietaryRestrictions = dr,
                                    !.returned = "true"]
  /\ UNCHANGED <<threads, msgs, now, ask, asked, graphReply, rendered>>

PrefsInit ==
  /\ threads = <<>>
  /\ msgs = <<>>
  /\ now = 0
  /\ ask = [p \in Procs |-> IdleAsk]
  /\ asked = 0
  /\ graphReply = NoReply
  /\ rendered = <<>>
  /\ graph = NoGraph
  /\ lastCall = NoCall

PrefsNext ==
  \/ CreateUser
  \/ UpdateUserPreferences

PrefsSpec == PrefsInit /\ [][PrefsNext]_vars

-----------------------------------------------------------------------------
(* recipe.ts: deleteMealFromPlan *)

\* the Recipe nodes, and for each Ingredient the recipes it is USED_IN
Recipes == {"r1", "r2"}
UsedIn == [i \in {"flour", "salt", "rice"} |->
             IF i = "flour" THEN {"r1"} ELSE IF i = "rice" THEN {"r2"} ELSE {"r1", "r2"}]

\* deleteMealFromPlan's query and line 1090, for the plan and its user. The
\* first MATCH gives a row for the PlannedMeal of the recipe; DETACH DELETE pm;
\* the MATCHes of the list and of its items for the recipe's ingredients give a
\* row per such item; DETACH DELETE si; the OPTIONAL MATCH ... WHERE
\* remainingItems IS NULL matches nothing, and DETACH DELETE sl deletes the list
\* of every row that is left. result.Records[0] is read whatever came back.
deleteMealFromPlan(g, plannedMealId) ==
  LET planned == IF plannedMealId \in g.meals THEN 1 ELSE 0
      forRecipe == {i \in g.items : plannedMealId \in UsedIn[i]}
      rows == IF planned = 1 /\ g.list THEN Cardinality(forRecipe) ELSE 0
      g1 == IF planned = 1 THEN [g EXCEPT !.meals = @ \ {plannedMealId}] ELSE g
      g2 == IF rows > 0 THEN [g1 EXCEPT !.items = @ \ forRecipe, !.list = FALSE] ELSE g1
  IN [graph |-> g2, returned |-> IF rows > 0 THEN "true" ELSE "abort"]

\* deleteMealFromPlan is called for a recipe
DeleteMealFromPlan ==
  /\ lastCall.n < MaxCalls
  /\ \E m \in Recipes :
       LET out == deleteMealFromPlan(graph, m)
       IN /\ graph' = out.graph
          /\ lastCall' = [NoCall EXCEPT !.op = "deleteMealFromPlan", !.n = lastCall.n + 1,
                                       !.meal = m, !.returned = out.returned]
  /\ UNCHANGED <<threads, msgs, now, ask, asked, graphReply, rendered>>

\* a MealPlan with planned meals, with or without a ShoppingList and its items
PlanInit ==
  /\ threads = <<>>
  /\ msgs = <<>>
  /\ now = 0
  /\ ask = [p \in Procs |-> IdleAsk]
  /\ asked = 0
  /\ graphReply = NoReply
  /\ rendered = <<>>
  /\ \E ms \in SUBSET Recipes, l \in BOOLEAN, it \in SUBSET DOMAIN UsedIn :
       /\ ~l => it = {}
       /\ graph = [NoGraph EXCEPT !.meals = ms, !.list = l, !.items = it]
  /\ lastCall = NoCall

PlanNext == DeleteMealFromPlan

PlanSpec == PlanInit /\ [][PlanNext]_vars

-----------------------------------------------------------------------------
(* Properties *)

\* the invocation p has returned a saved exchange
Succeeded(p) == ask[p].pc = "done" /\ ask[p].saveResult.success

\* the loop run of invocation p has ended
RunEnded(p) == ask[p].ended # ""

\* user, assistant, user, assistant, ...
Alternates(h) ==
  \A k \in 1..Len(h) : h[k].role = (IF k % 2 = 1 THEN "user" ELSE "assistant")

IsPrefix(s, t) == Len(s) <= Len(t) /\ SubSeq(t, 1, Len(s)) = s

\* how many messages of thread tid have the role
RoleCount(tid, role) == Cardinality({i \in ThreadMsgs(tid) : msgs[i].role = role})

\* C1: an ask that completes successfully has appended to its thread exactly one
\* user message (the question) immediately followed by one assistant message
\* (the response) and nothing else; with a null thread id the result carries a
\* fresh non-empty thread id and that thread holds exactly 2 messages.
C1_SuccessfulAskAppendsOnePair ==
  \A p \in Procs :
    Succeeded(p) =>
      LET a == ask[p]
          tid == a.result.thread_id
      IN /\ Len(a.appended) = 2
         /\ a.appended[1] = [thread |-> tid, role |-> "user", content |-> a.question,
                             datetime |-> a.appended[1].datetime]
         /\ a.appended[2] = [thread |-> tid, role |-> "assistant",
                             content |-> a.result.response,
                             datetime |-> a.appended[2].datetime]
         /\ \E i \in 1..(Len(msgs) - 1) :
              msgs[i] = a.appended[1] /\ msgs[i + 1] = a.appended[2]
         /\ a.thread_id = NULL =>
              /\ tid # ""
              /\ ThreadExists(tid)
              /\ \A q \in Procs \ {p} : ask[q].result.thread_id # tid
              /\ Cardinality(ThreadMsgs(tid)) = 2

C1_Witness ==
  \E p \in Procs :
    /\ Succeeded(p)
    /\ ask[p].thread_id = NULL
    /\ Cardinality(ThreadMsgs(ask[p].result.thread_id)) = 2

\* C2: the history getThreadMessages returns alternates user/assistant starting
\* with user (in non-decreasing timestamp order), also when the two messages of
\* an exchange carry the same timestamp.
C2_LoadedHistoryAlternates ==
  \A p \in Procs : ask[p].pc = "llm" => Alternates(ask[p].previousMessages)

\* C3: when the run ends without final text (a failed model call, or the
\* ceiling), the ask persists no messages and returns an error with the run's
\* partial log attached.
C3_NoFinalTextPersistsNothing ==
  \A p \in Procs :
    ask[p].ended \in {"failed", "ceiling"} =>
      /\ ask[p].appended = <<>>
      /\ ask[p].pc = "done" =>
           /\ ~ask[p].saveResult.success
           /\ IsPrefix(ask[p].response.logs, ask[p].result.logs)
           /\ Len(ask[p].result.logs) > Len(ask[p].response.logs)

\* C4: an ask with a non-null thread id unknown to the store changes neither the
\* messages nor the threads in any of its steps, never reaches the save query,
\* and returns the error `Thread with id ... not found` and no response.
C4_UnknownThreadAskFails ==
  [][\A p \in Procs :
       (ask'[p] # ask[p] /\ ask'[p].thread_id # NULL /\ ~ThreadExists(ask'[p].thread_id)) =>
         /\ msgs' = msgs
         /\ threads' = threads
         /\ ask'[p].pc \notin {"save", "touch"}
         /\ ask'[p].pc = "done" =>
              /\ ~ask'[p].saveResult.success
              /\ ask'[p].result =
                   [thread_id |-> ask'[p].thread_id, response |-> "",
                    logs |-> <<"Error: Thread with id " \o ask'[p].thread_id
                                 \o " not found">>]]_vars

C4_Witness ==
  \E p \in Procs :
    /\ ask[p].pc = "done"
    /\ ask[p].thread_id = UnknownId
    /\ ask[p].modelCalls > 0
    /\ Len(msgs) > 0

\* C5: no run calls the model more than 10 times, and a run in which the model
\* never returns final text ends after exactly 10 model calls with the
\* best-effort text as its (non-throwing) result and a log line for the forced
\* termination.
C5_CeilingAfterTenCalls ==
  \A p \in Procs :
    /\ ask[p].modelCalls <= 10
    /\ (RunEnded(p) /\ ask[p].script.tools >= 10) =>
         /\ ask[p].modelCalls = 10
         /\ ask[p].ended = "ceiling"
         /\ ask[p].response.response = ask[p].script.partial
         /\ ask[p].response.logs # <<>>
         /\ ask[p].response.logs[Len(ask[p].response.logs)] = "Loop limit reached"

C5_Witness ==
  \E p \in Procs : Succeeded(p) /\ ask[p].ended = "ceiling" /\ ask[p].modelCalls = 10

C7_ToolTurnsNotPersisted ==
  /\ \A i \in 1..Len(msgs) : msgs[i].role \in {"user", "assistant"}
  /\ \A p \in Procs :
       (ask[p].toolTurns # <<>> /\ ask[p].pc \in {"touch", "done"}) =>
         LET a == ask[p]
         IN /\ Len(a.appended) \in {0, 2}
            /\ Len(a.appended) = 2 =>
                 /\ a.appended[1].content = a.question
                 /\ a.appended[2].content = a.response.response
                 /\ \A k \in 1..Len(a.toolTurns), m \in 1..2 :
                      a.appended[m].content # a.toolTurns[k].content

C7_Witness ==
  \E p \in Procs : Succeeded(p) /\ Len(ask[p].toolTurns) >= 10 /\ Len(ask[p].appended) = 2

\* C8: in every reachable state each thread holds as many user messages as
\* assistant messages, every ask has stored both messages of its exchange or
\* neither, and an ask that returned with nothing stored returned an error.
C8_PairStoredWhole ==
  /\ \A tid \in DOMAIN threads \cup {UnknownId} :
       RoleCount(tid, "user") = RoleCount(tid, "assistant")
  /\ \A i \in 1..Len(msgs) : msgs[i].thread \in DOMAIN threads
  /\ \A p \in Procs :
       /\ Len(ask[p].appended) \in {0, 2}
       /\ (ask[p].pc = "done" /\ ask[p].appended = <<>>) =>
            /\ ~ask[p].saveResult.success
            /\ ask[p].result.logs # <<>>
            /\ SubSeq(ask[p].result.logs[Len(ask[p].result.logs)], 1, 6) = "Error:"

C8_Witness ==
  \E p \in Procs :
    /\ ask[p].pc = "done"
    /\ ask[p].saveResult.message = "Failed to save messages"
    /\ ThreadExists(ask[p].result.thread_id)
    /\ Len(msgs) >= 2

\* C9: the message log is append-only and ordered: no step removes or reorders a
\* stored message, and in every order loadHistory can return, each message of a
\* thread comes after all messages appended to that thread before it.
C9_HistoryKeepsAppendOrder ==
  [][/\ IsPrefix(msgs, msgs')
     /\ \A tid \in DOMAIN threads' :
          \A o \in Orders(ThreadMsgs(tid))' :
            \A k \in 1..(Len(o) - 1) : o[k] < o[k + 1]]_vars

\* C10: a step of an ask on thread A leaves the messages and the timestamps of
\* every other thread as they were, and the history it loads consists of the
\* messages of A alone.
C10_OtherThreadsUntouched ==
  [][\A p \in Procs :
       ask'[p] # ask[p] =>
         LET A == ask'[p].result.thread_id
         IN /\ \A B \in DOMAIN threads \ {A} :
                 /\ threads'[B] = threads[B]
                 /\ ThreadMsgs(B)' = ThreadMsgs(B)
                 /\ \A i \in ThreadMsgs(B) : msgs'[i] = msgs[i]
            /\ (ask[p].pc = "load" /\ ask'[p].pc = "llm") =>
                 LET h == ask'[p].previousMessages
                     own == ThreadMsgs(A)
                 IN /\ Len(h) = Cardinality(own)
                    /\ \A r \in {"user", "assistant"} :
                         Cardinality({k \in 1..Len(h) : h[k].role = r}) = RoleCount(A, r)
                    /\ \A k \in 1..Len(h) :
                         \E i \in own : h[k] = [role |-> msgs[i].role,
                                                content |-> msgs[i].content]]_vars

C10_Witness ==
  \E p, q \in Procs :
    /\ Succeeded(p)
    /\ ask[q].pc = "done"
    /\ ask[q].appended # <<>>
    /\ ask[p].result.thread_id # ask[q].result.thread_id
    /\ threads[ask[p].result.thread_id].last_updated
         # threads[ask[q].result.thread_id].last_updated

\* C11: an ask that returns a failure after its loop has run (a failed model
\* call, or saveMessages reporting failure) returns the RunLog lines the loop
\* accumulated, followed by the error entry.
C11_FailedAskKeepsRunLog ==
  \A p \in Procs :
    (ask[p].pc = "done" /\ RunEnded(p) /\ ~ask[p].saveResult.success) =>
      LET logs == ask[p].result.logs
      IN /\ IsPrefix(ask[p].response.logs, logs)
         /\ Len(logs) = Len(ask[p].response.logs) + 1
         /\ SubSeq(logs[Len(logs)], 1, 6) = "Error:"

\* the invocation p has returned because createThread failed
CreateFailed(p) ==
  ask[p].pc = "done" /\ ask[p].thread_id = NULL /\ ask[p].result.thread_id = ""

\* C12: an ask with a null thread id whose thread creation fails returns the
\* error `Failed to create thread` and nothing else; it has called the model
\* zero times, executed no tool query and persisted no message, and no thread
\* was added for it.
C12_CreateFailureStopsAsk ==
  \A p \in Procs :
    /\ (ask[p].thread_id = NULL /\ ask[p].result.thread_id = "") =>
         ask[p].pc \in {"idle", "create", "done"}
    /\ CreateFailed(p) =>
         /\ ask[p].result = [thread_id |-> "", response |-> "",
                             logs |-> <<"Error: Failed to create thread">>]
         /\ ask[p].modelCalls = 0
         /\ ask[p].toolExecs = 0
         /\ ask[p].toolTurns = <<>>
         /\ ~RunEnded(p)
         /\ ask[p].appended = <<>>
         /\ \A i \in 1..Len(msgs) : msgs[i].thread # ""

C12_Witness ==
  \E p, q \in Procs :
    /\ CreateFailed(p)
    /\ ask[p].result.logs = <<"Error: Failed to create thread">>
    /\ Succeeded(q)

\* C13: in every step every existing thread keeps its id and its creation time
\* and its last_updated does not decrease, whichever asks touch it and however
\* often; and last_updated is never earlier than created.
C13_ThreadTimestampsMonotonic ==
  [][/\ \A t \in DOMAIN threads :
          /\ t \in DOMAIN threads'
          /\ threads'[t].created = threads[t].created
          /\ threads'[t].last_updated >= threads[t].last_updated
     /\ \A t \in DOMAIN threads' : threads'[t].last_updated >= threads'[t].created]_vars

C13_Witness ==
  \E p \in Procs :
    LET t == ask[p].thread_id
    IN /\ Succeeded(p)
       /\ ThreadExists(t)
       /\ Cardinality(ThreadMsgs(t)) = 4
       /\ threads[t].last_updated > threads[t].created

\* C14: no step deletes a thread or removes or rewrites a stored message, and a
\* step that stores messages is the save of an ask whose loop run has completed
\* successfully, i.e. ended with the model's final text.
C14_MessagesOnlyAfterSuccessfulRun ==
  [][/\ \A t \in DOMAIN threads : t \in DOMAIN threads'
     /\ IsPrefix(msgs, msgs')
     /\ msgs' # msgs =>
          \E p \in Procs :
            /\ ask[p].pc = "save"
            /\ ask'[p].appended = SubSeq(msgs', Len(msgs) + 1, Len(msgs'))
            /\ ask[p].ended = "final"]_vars

\* the messages stored for thread tid, oldest first: in the order of their creation
StoredHistory(tid) ==
  LET own == SelectSeq(msgs, LAMBDA m : m.thread = tid)
  IN [k \in 1..Len(own) |-> [role |-> own[k].role, content |-> own[k].content]]

\* C15: the context an ask hands to the loop is the system prompt, then all the
\* messages stored for its thread when the history is loaded, oldest first, then
\* the new question, and nothing else; so the k-th of k successful asks in
\* sequence on one thread loads 2(k-1) messages.
C15_ContextIsPromptHistoryQuestion ==
  [][\A p \in Procs :
       (ask[p].pc = "load" /\ ask'[p].pc = "llm") =>
         LET tid == ask[p].result.thread_id
         IN /\ Context(ask'[p]) =
                 << [role |-> "system", content |-> DEFAULT_PROMPT] >>
                   \o StoredHistory(tid)
                   \o << [role |-> "user", content |-> ask[p].question] >>
            /\ Len(ask'[p].previousMessages) = Cardinality(ThreadMsgs(tid))]_vars

\* the place of a step in postNeo4jQuestion's body
PcRank(pc) ==
  CASE pc = "idle" -> 0
    [] pc = "create" -> 1
    [] pc = "load" -> 2
    [] pc = "llm" -> 3
    [] pc = "validate" -> 4
    [] pc = "save" -> 5
    [] pc = "touch" -> 6
    [] OTHER -> 7

\* C16: an ask only moves forward through create thread, load history, run the
\* loop, persist, touch, return, so no step happens twice or is retried; the
\* loop starts right after the load and the persist right after the loop; the
\* touch directly follows a persist that succeeded; and the store is written by
\* the step whose turn it is: a thread is added by create, messages by persist,
\* last_updated by touch.
C16_StepsOnceInOrder ==
  [][/\ \A p \in Procs :
          ask'[p] # ask[p] =>
            LET was == ask[p].pc
                is == ask'[p].pc
            IN /\ PcRank(is) > PcRank(was) \/ (was = "done" /\ is = "idle")
               /\ is = "load" => was \in {"idle", "create"}
               /\ is = "llm" => was = "load"
               /\ is = "validate" => was = "llm" /\ RunEnded(p)'
               /\ is = "save" => was = "validate"
               /\ is = "touch" =>
                    /\ was = "save"
                    /\ ask'[p].saveResult.success
                    /\ Len(ask'[p].appended) = 2
               /\ ask'[p].modelCalls # ask[p].modelCalls => was \in {"llm", "done"}
     /\ DOMAIN threads' # DOMAIN threads =>
          \E p \in Procs : ask[p].pc = "create" /\ ask'[p].pc = "load"
     /\ msgs' # msgs => \E p \in Procs : ask[p].pc = "save" /\ ask'[p] # ask[p]
     /\ (\E t \in DOMAIN threads : threads'[t] # threads[t]) =>
          \E p \in Procs :
            /\ ask[p].pc = "touch" /\ ask'[p].pc = "done"
            /\ ask[p].saveResult.success
            /\ \A t \in DOMAIN threads \ {ask[p].result.thread_id} :
                 threads'[t] = threads[t]]_vars

C16_Witness ==
  \E p, q \in Procs :
    /\ Succeeded(p)
    /\ ask[p].thread_id = NULL
    /\ ask[p].modelCalls > 1
    /\ ask[q].pc = "done"
    /\ ask[q].saveResult.message = "Failed to save messages"
    /\ ask[q].modelCalls > 0

\* part occurs in text
Contains(text, part) ==
  \E i \in 1..(Len(text) - Len(part) + 1) : SubSeq(text, i, i + Len(part) - 1) = part

\* the tool call answered by the k-th tool turn of invocation p
CallOfTurn(p, k) == ask[p].script.calls[((k - 1) % Len(ask[p].script.calls)) + 1]

\* C17: a query the store fails becomes a tool-result turn whose text carries the
\* store's error message; the run goes on to the model's next call and the ask
\* to its save, neither is aborted.
C17_FailedQueryBecomesToolText ==
  \A p \in Procs :
    RunEnded(p) =>
      \A k \in 1..Len(ask[p].toolTurns) :
        LET call == CallOfTurn(p, k)
        IN (call.name = "execute_query" /\ GraphResponse(call.arguments.query).null) =>
             /\ ask[p].toolTurns[k].role = "tool"
             /\ Contains(ask[p].toolTurns[k].content, QueryError(call.arguments.query))
             /\ ask[p].modelCalls > ask[p].script.tools \/ ask[p].ended = "ceiling"
             /\ ask[p].pc \in {"validate", "save", "touch", "done"}

\* C18: a tool call whose name is not execute_query gets the empty string as its
\* tool result and sends no query to the store (the run has executed one query
\* per execute_query call and none for the others), and the run goes on: it ends
\* as the model's script ends, here with the final text.
C18_UnknownToolIsEmptyResult ==
  \A p \in Procs :
    RunEnded(p) =>
      \A k \in 1..Len(ask[p].toolTurns) :
        LET call == CallOfTurn(p, k)
        IN call.name # "execute_query" =>
             /\ ask[p].toolTurns[k] = [role |-> "tool", content |-> ""]
             /\ ask[p].toolExecs = ask[p].loops * QueriesIn(ask[p].script.calls)
             /\ ask[p].toolExecs < Len(ask[p].toolTurns)
             /\ ask[p].ended = "final"
             /\ ask[p].response.response = ask[p].script.text

C18_Witness ==
  \E p \in Procs :
    /\ Succeeded(p)
    /\ \E k \in 1..Len(ask[p].toolTurns) :
         /\ CallOfTurn(p, k).name = "lookup_recipe"
         /\ ask[p].toolTurns[k].content = ""
    /\ ask[p].result.response = "a1"

\* the `key: value` texts of a row's columns that are not null, in column order
RowPairs(record) ==
  LET cols == SelectSeq([i \in 1..Len(record.Keys) |-> i],
                        LAMBDA i : record.Values[i] # NULL)
  IN [k \in 1..Len(cols) |-> record.Keys[cols[k]] \o ": " \o record.Values[cols[k]]]

\* C19: the text rendered for a reply with at least one Record is one line per
\* Record, the line being the Record's non-null columns as `key: value` joined
\* by ", " in column order, and the lines joined by one newline, with nothing
\* before the first line or after the last.
C19_OneLinePerRow ==
  (rendered # <<>> /\ ~graphReply.null /\ graphReply.Records # <<>>) =>
    rendered[1] =
      Join([k \in 1..Len(graphReply.Records) |->
              Join(RowPairs(graphReply.Records[k]), ", ")], "\n")

\* C20: the text rendered for a reply with no Records is exactly
\* "Query returned no results.".
C20_EmptyResultIsSentinel ==
  (rendered # <<>> /\ ~graphReply.null /\ graphReply.Records = <<>>) =>
    rendered = <<"Query returned no results.">>

C20_Witness ==
  /\ rendered # <<>>
  /\ graphReply = [null |-> FALSE, Records |-> <<>>]
  /\ Len(rendered[1]) = 26

\* the first place at or after i where sep occurs in text; 0 when there is none
RECURSIVE FindFrom(_, _, _)
FindFrom(text, sep, i) ==
  IF i + Len(sep) - 1 > Len(text) THEN 0
  ELSE IF SubSeq(text, i, i + Len(sep) - 1) = sep THEN i
  ELSE FindFrom(text, sep, i + 1)

\* text split on every occurrence of sep, as String.split does
RECURSIVE Split(_, _)
Split(text, sep) ==
  LET at == FindFrom(text, sep, 1)
  IN IF at = 0 THEN <<text>>
     ELSE <<SubSeq(text, 1, at - 1)>>
            \o Split(SubSeq(text, at + Len(sep), Len(text)), sep)

\* the key and the value read back from one `key: value` text
ParsePair(pair) ==
  LET at == FindFrom(pair, ": ", 1)
  IN IF at = 0 THEN [key |-> pair, value |-> NULL]
     ELSE [key |-> SubSeq(pair, 1, at - 1),
           value |-> SubSeq(pair, at + 2, Len(pair))]

\* the pairs read back from one line
ParseLine(line) ==
  IF line = "" THEN <<>>
  ELSE LET parts == Split(line, ", ")
       IN [k \in 1..Len(parts) |-> ParsePair(parts[k])]

\* the key/value pairs of a Record's columns that hold a scalar
ScalarPairs(record) ==
  LET cols == SelectSeq([i \in 1..Len(record.Keys) |-> i],
                        LAMBDA i : record.Values[i] # NULL)
  IN [k \in 1..Len(cols) |-> [key |-> record.Keys[cols[k]],
                              value |-> record.Values[cols[k]]]]

\* C21: round trip: for a reply with Records (scalar values without commas),
\* splitting the rendered text on newline gives as many lines as there are
\* Records, and splitting the k-th line on ", " gives exactly the key/value
\* pairs of the k-th Record.
C21_RenderSplitRoundTrip ==
  (rendered # <<>> /\ ~graphReply.null /\ graphReply.Records # <<>>) =>
    LET lines == Split(rendered[1], "\n")
    IN /\ Len(lines) = Len(graphReply.Records)
       /\ \A k \in 1..Len(lines) :
            ParseLine(lines[k]) = ScalarPairs(graphReply.Records[k])

\* C22: the thread createThread has allocated for an ask is new (no other ask
\* holds its id), its id is what createThread returned, its status is active,
\* its created equals its last_updated, and it has no messages until the ask
\* saves its own.
C22_CreatedThreadIsFreshAndEmpty ==
  \A p \in Procs :
    (ask[p].thread_id = NULL /\ ask[p].pc \in {"load", "llm", "validate", "save"}) =>
      LET id == ask[p].result.thread_id
      IN /\ id # ""
         /\ ThreadExists(id)
         /\ threads[id].status = "active"
         /\ threads[id].created = threads[id].last_updated
         /\ ThreadMsgs(id) = {}
         /\ \A q \in Procs \ {p} : ask[q].result.thread_id # id

C22_Witness ==
  \E p \in Procs :
    /\ ask[p].thread_id = NULL
    /\ ask[p].pc = "load"
    /\ ThreadExists(ask[p].result.thread_id)
    /\ threads[ask[p].result.thread_id].created = 1
    /\ Len(msgs) = 2

\* C23: an ask with a non-null thread id the store does not know is not turned
\* away before its loop has run: it loads an empty history, and when it returns
\* (with `Thread with id ... not found` from saveMessages) its run has ended,
\* the model has been called as often as its script asks for (up to the limit)
\* and every query of every tool round has been executed.
C23_UnknownThreadFoundOutAtSave ==
  \A p \in Procs :
    (ask[p].thread_id # NULL /\ ~ThreadExists(ask[p].thread_id)) =>
      LET a == ask[p]
      IN /\ a.pc = "llm" => a.previousMessages = <<>>
         /\ a.pc \in {"load", "llm", "validate", "done"}
         /\ a.pc = "done" =>
              /\ RunEnded(p)
              /\ a.saveResult.message = "Thread with id " \o a.thread_id \o " not found"
              /\ a.modelCalls >= 1
              /\ a.modelCalls = (IF a.script.tools >= loop_limit THEN loop_limit
                                 ELSE a.script.tools + 1)
              /\ a.toolExecs = a.loops * QueriesIn(a.script.calls)
              /\ a.loops = a.modelCalls - (IF a.ended = "ceiling" THEN 0 ELSE 1)
              /\ Len(a.toolTurns) = a.loops * Len(a.script.calls)

C23_Witness ==
  \E p \in Procs :
    /\ ask[p].pc = "done"
    /\ ask[p].thread_id = UnknownId
    /\ ask[p].toolExecs >= 1
    /\ ask[p].ended = "final"
    /\ ask[p].result.logs = <<"Error: Thread with id t0 not found">>

\* C24: with asks overlapping on one thread, the history an ask has loaded is
\* the thread's messages of that moment and no step of another ask changes it
\* (so its loop runs without an exchange saved after its load); every step that
\* changes the messages is a save that keeps all stored messages and appends the
\* saving ask's own user/assistant pair, and every successful save makes the
\* thread's message count exactly 2 larger.
C24_OverlappingAsksBothPersist ==
  [][/\ \A p \in Procs :
          /\ (ask[p].pc = "load" /\ ask'[p].pc = "llm") =>
               Len(ask'[p].previousMessages) = Cardinality(ThreadMsgs(ask[p].result.thread_id))
          /\ (ask[p].pc = "llm" /\ ask'[p].pc = "llm") =>
               ask'[p].previousMessages = ask[p].previousMessages
          /\ (ask[p].pc = "save" /\ ask'[p].pc = "touch") =>
               LET tid == ask[p].result.thread_id
               IN /\ Cardinality(ThreadMsgs(tid)') = Cardinality(ThreadMsgs(tid)) + 2
                  /\ msgs' = msgs \o
                       << [thread |-> tid, role |-> "user", content |-> ask[p].question,
                           datetime |-> now],
                          [thread |-> tid, role |-> "assistant",
                           content |-> ask'[p].result.response, datetime |-> now] >>
     /\ IsPrefix(msgs, msgs')
     /\ msgs' # msgs =>
          \E p \in Procs : ask[p].pc = "save" /\ ask'[p].pc = "touch"]_vars

C24_Witness ==
  \E p, q \in Procs :
    /\ ask[p].pc = "llm"
    /\ ask[p].thread_id = ask[q].thread_id
    /\ Len(ask[p].previousMessages) = 2
    /\ ask[q].pc \in {"touch", "done"}
    /\ Len(ask[q].appended) = 2
    /\ Cardinality(ThreadMsgs(ask[p].thread_id)) = 4

\* C25: when an ask has returned successfully, the store holds a user message
\* whose content is the question argument and an assistant message whose
\* content is the response returned to the caller, both in the thread whose id
\* the result carries, and that thread exists.
C25_StoredContentIsQuestionAndResponse ==
  \A p \in Procs :
    Succeeded(p) =>
      LET a == ask[p]
          tid == a.result.thread_id
      IN /\ ThreadExists(tid)
         /\ a.thread_id # NULL => tid = a.thread_id
         /\ \E i, j \in ThreadMsgs(tid) :
              /\ i < j
              /\ msgs[i].role = "user" /\ msgs[i].content = a.question
              /\ msgs[j].role = "assistant" /\ msgs[j].content = a.result.response
              /\ <<msgs[i], msgs[j]>> = a.appended
         /\ a.result.response = a.response.response

C25_Witness ==
  \E p \in Procs :
    /\ Succeeded(p)
    /\ ask[p].thread_id # NULL
    /\ ask[p].toolTurns # <<>>
    /\ ask[p].result.response = "a1"
    /\ \E i \in ThreadMsgs(ask[p].thread_id) :
         msgs[i].role = "assistant" /\ msgs[i].content = "a1" /\ i > 2

\* every column of the Record is null
AllNull(record) == \A i \in 1..Len(record.Values) : record.Values[i] = NULL

\* C26: a Record whose columns are all null contributes no line: the rendered
\* text has one newline-ended line per Record that has a non-null column, and
\* none besides; a reply whose Records are all all-null renders as
\* "Query returned no results.", the text of a reply with no Records.
C26_AllNullRowsGiveNoLine ==
  (rendered # <<>> /\ ~graphReply.null) =>
    LET kept == SelectSeq(graphReply.Records, LAMBDA r : ~AllNull(r))
    IN IF kept = <<>>
       THEN rendered[1] = "Query returned no results."
       ELSE LET parts == Split(rendered[1], "\n")
            IN /\ Len(parts) = Len(kept) + 1
               /\ parts[Len(parts)] = ""
               /\ \A k \in 1..Len(kept) : ParseLine(parts[k]) = ScalarPairs(kept[k])

C26_Witness ==
  /\ rendered = <<"Query returned no results.">>
  /\ Len(graphReply.Records) >= 2
  /\ \A k \in 1..Len(graphReply.Records) : AllNull(graphReply.Records[k])

\* the names that occur in the list
Names(list) == {list[i] : i \in 1..Len(list)}

\* C27: after createUser the preferences node has a PREFERS relationship to
\* every favourite cuisine (to Italian, American and Mexican when none was
\* given) and an EXCLUDES relationship to every given allergen, also when the
\* allergens list is empty.
C27_CreateUserConnectsPreferences ==
  lastCall.op = "createUser" =>
    LET cuisines == IF lastCall.favoriteCuisines.v = <<>>
                    THEN {"Italian", "American", "Mexican"}
                    ELSE Names(lastCall.favoriteCuisines.v)
    IN /\ \A c \in cuisines : graph.PREFERS[c] >= 1
       /\ \A a \in Names(lastCall.allergens.v) : graph.EXCLUDES[a] >= 1

\* C28: a call of updateUserPreferences leaves as it was every field whose
\* argument is null: the allergens property and the EXCLUDES relationships, the
\* favoriteCuisines property and the PREFERS relationships, skillLevel, and
\* dietaryRestrictions.
C28_NullArgumentsChangeNothing ==
  [][lastCall'.op = "updateUserPreferences" =>
       /\ lastCall'.allergens.null =>
            graph'.allergens = graph.allergens /\ graph'.EXCLUDES = graph.EXCLUDES
       /\ lastCall'.favoriteCuisines.null =>
            /\ graph'.favoriteCuisines = graph.favoriteCuisines
            /\ graph'.PREFERS = graph.PREFERS
       /\ lastCall'.skillLevel.null => graph'.skillLevel = graph.skillLevel
       /\ lastCall'.dietaryRestrictions.null =>
            graph'.dietaryRestrictions = graph.dietaryRestrictions]_vars

C28_Witness ==
  /\ lastCall.op = "updateUserPreferences"
  /\ graph.user
  /\ lastCall.allergens.null /\ lastCall.skillLevel.null
  /\ ~lastCall.favoriteCuisines.null /\ ~lastCall.dietaryRestrictions.null
  /\ graph.EXCLUDES["nuts"] = 1 /\ graph.allergens = <<"nuts", "milk">>
  /\ graph.skillLevel = "beginner"
  /\ graph.favoriteCuisines = <<"Thai">> /\ graph.PREFERS["Italian"] = 0

\* C29: after updateUserPreferences for an existing user with a non-null
\* allergens list the preferences node has exactly one EXCLUDES relationship to
\* each listed allergen and none to any other, and with a non-null
\* favoriteCuisines list exactly one PREFERS relationship to each listed cuisine
\* and none to any other, whatever was there before and whatever the other
\* arguments are.
C29_RelationshipsMatchLists ==
  (lastCall.op = "updateUserPreferences" /\ graph.user) =>
    /\ ~lastCall.allergens.null =>
         \A n \in AllergenNames :
           graph.EXCLUDES[n] = (IF n \in Names(lastCall.allergens.v) THEN 1 ELSE 0)
    /\ ~lastCall.favoriteCuisines.null =>
         \A n \in CuisineNames :
           graph.PREFERS[n] = (IF n \in Names(lastCall.favoriteCuisines.v) THEN 1 ELSE 0)

\* C30: a call of deleteMealFromPlan for a meal of the plan removes the planned
\* meal and the shopping items for the ingredients of its recipe and no other
\* item, keeps the shopping list when items remain in it and deletes it when
\* none remains, and returns true.
C30_ListKeptWhileItemsRemain ==
  [][(lastCall'.op = "deleteMealFromPlan" /\ lastCall'.meal \in graph.meals) =>
       /\ graph'.meals = graph.meals \ {lastCall'.meal}
       /\ graph'.items = {i \in graph.items : lastCall'.meal \notin UsedIn[i]}
       /\ graph'.list = (graph.list /\ graph'.items # {})
       /\ lastCall'.returned = "true"]_vars

====
